---- MODULE Spec2Model ----
(***************************************************************************)
(* Model of the Vulkan bootstrap in src/main.rs and src/base/mod.rs:       *)
(* App::create (create_instance, choose_physical_device), the winit event  *)
(* loop of main, App::render, App::destroy and debug_callback.             *)
(*                                                                         *)
(* Rust Option / Result values are sequences: <<>> is None, <<x>> Some(x). *)
(***************************************************************************)
EXTENDS Integers, Sequences, FiniteSets, TLC

VARIABLES
    \* build configuration and platform (fixed during a run)
    VALIDATION_ENABLED,   \* cfg!(debug_assertions)
    target_macos,         \* cfg!(target_os = "macos")
    available_layers,     \* layer names the platform offers
    window_exts,          \* vk_window::get_required_instance_extensions(window)
    api_version,          \* entry.version()
    devices,              \* physical devices, each a sequence of queue_flags sets
    \* the program
    pc,                   \* position in main
    result,               \* outcome of App::create: "pending", "Ok" or the error
    instance,             \* local `instance` of App::create
    debug_messenger,      \* local `debug_messenger` of App::create
    app,                  \* the App struct, <<>> until create returned Ok
    info,                 \* InstanceCreateInfo handed to entry.create_instance
    calls,                \* Vulkan commands issued so far, in order
    log,                  \* log lines emitted by create, in order
    platform,             \* state of the instance and messenger handles
    events,               \* events delivered to the closure of event_loop.run
    exiting,              \* elwt.exiting()
    redraw_requested,     \* window.request_redraw() pending
    renders,              \* invocations of App::render
    destroys,             \* invocations of App::destroy
    \* last invocation of debug_callback
    cb_severity, cb_type, cb_message, cb_level, cb_text, cb_ret, cb_count

envVars == <<VALIDATION_ENABLED, target_macos, available_layers, window_exts,
             api_version, devices>>
createVars == <<pc, result, instance, debug_messenger, app, info, calls, log, platform>>
loopVars == <<events, exiting, redraw_requested, renders, destroys>>
cbVars == <<cb_severity, cb_type, cb_message, cb_level, cb_text, cb_ret, cb_count>>
vars == <<envVars, createVars, loopVars, cbVars>>

(***************************************************************************)
(* Bounds                                                                  *)
(***************************************************************************)
MaxDevices == 3
MaxFamilies == 2
MaxWindowExts == 2
MaxEvents == 4
MaxCallbacks == 2

(***************************************************************************)
(* constants/mod.rs                                                        *)
(***************************************************************************)
PORTABILITY_MACOS_VERSION == <<1, 3, 216>>
VALIDATION_LAYER == "VK_LAYER_KHRONOS_validation"

\* names supplied by vulkanalia
KHR_GET_PHYSICAL_DEVICE_PROPERTIES2_EXTENSION == "VK_KHR_get_physical_device_properties2"
KHR_PORTABILITY_ENUMERATION_EXTENSION == "VK_KHR_portability_enumeration"
EXT_DEBUG_UTILS_EXTENSION == "VK_EXT_debug_utils"
ENUMERATE_PORTABILITY_KHR == "ENUMERATE_PORTABILITY_KHR"

None == <<>>
Some(x) == <<x>>

Call(op) == [op |-> op, dev |-> None]
DevCall(op, d) == [op |-> op, dev |-> Some(d)]
Line(level, text) == [level |-> level, text |-> text, dev |-> None]
DevLine(level, text, d) == [level |-> level, text |-> text, dev |-> Some(d)]

\* every component compared on its own
VersionGE_componentwise(a, b) ==
    a[1] >= b[1] /\ a[2] >= b[2] /\ a[3] >= b[3]

\* Version derives Ord: major, then minor, then patch
VersionGE(a, b) ==
    \/ a[1] > b[1]
    \/ a[1] = b[1] /\ a[2] > b[2]
    \/ a[1] = b[1] /\ a[2] = b[2] /\ a[3] >= b[3]

(***************************************************************************)
(* The handles as the platform sees them                                   *)
(***************************************************************************)
NoHandles == [instance |-> "none", messenger |-> "none"]

PlatformApply(p, op) ==
    CASE op = "create_instance" -> [p EXCEPT !.instance = "live"]
      [] op = "create_debug_utils_messenger_ext" ->
            [p EXCEPT !.messenger = IF p.instance = "live" THEN "live" ELSE "invalid"]
      [] op = "destroy_debug_utils_messenger_ext" ->
            [p EXCEPT !.messenger = IF p.messenger = "live" /\ p.instance = "live"
                                    THEN "destroyed" ELSE "invalid"]
      [] op = "destroy_instance" ->
            [p EXCEPT !.instance = IF p.instance = "live" THEN "destroyed" ELSE "invalid",
                      !.messenger = IF p.messenger = "live" THEN "dangling" ELSE p.messenger]
      [] OTHER -> p

RECURSIVE PlatformApplyAll(_, _)
PlatformApplyAll(p, cs) ==
    IF cs = <<>> THEN p
    ELSE PlatformApplyAll(PlatformApply(p, Head(cs).op), Tail(cs))

(***************************************************************************)
(* create_instance                                                         *)
(***************************************************************************)
NoInfo == [layers |-> <<>>, extensions |-> <<>>, flags |-> {}, next |-> None]

\* the probe only notices an empty set of layers
validation_missing_empty_only(validation, layers) ==
    validation /\ layers = {}

\* the probe is skipped
validation_unchecked(validation, layers) == FALSE

validation_missing(validation, layers) ==
    validation /\ VALIDATION_LAYER \notin layers

enabled_layers(validation) ==
    IF validation THEN <<VALIDATION_LAYER>> ELSE <<>>

portability(macos, version) ==
    macos /\ VersionGE(version, PORTABILITY_MACOS_VERSION)

enabled_extensions(validation, port, exts) ==
    LET withPort == IF port
                    THEN exts \o <<KHR_GET_PHYSICAL_DEVICE_PROPERTIES2_EXTENSION,
                                   KHR_PORTABILITY_ENUMERATION_EXTENSION>>
                    ELSE exts
    IN  IF validation THEN Append(withPort, EXT_DEBUG_UTILS_EXTENSION) ELSE withPort

creation_flags(port) ==
    IF port THEN {ENUMERATE_PORTABILITY_KHR} ELSE {}

\* the messenger is registered in every build
messenger_always(validation) == TRUE

messenger_wanted(validation) == validation

\* the Vulkan commands of the tail of create_instance, in the order issued
instance_calls(wanted) ==
    IF wanted
    THEN <<Call("create_instance"), Call("create_debug_utils_messenger_ext")>>
    ELSE <<Call("create_instance")>>

\* layers_ok, version_ok, instance_ok, messenger_ok: whether the platform
\* call returns Ok; each `?` returns the error to the caller.
create_instance(validation, macos, layers, exts, version, layers_ok, version_ok, instance_ok, messenger_ok) ==
    LET c1 == <<Call("enumerate_instance_layer_properties")>>
        failed(err, cs, lg, inf) ==
            [result |-> err, instance |-> None, debug_messenger |-> None,
             calls |-> cs, log |-> lg, info |-> inf]
    IN
    IF ~layers_ok THEN failed("LayerEnumerationError", c1, <<>>, NoInfo)
    ELSE IF validation_missing(validation, layers)
    THEN failed("MissingCapability", c1, <<>>, NoInfo)
    ELSE
    LET c2 == IF macos THEN Append(c1, Call("version")) ELSE c1 IN
    IF macos /\ ~version_ok THEN failed("VersionError", c2, <<>>, NoInfo)
    ELSE
    LET port == portability(macos, version)
        lg == IF port
              THEN <<Line("info", "Enabling extensions for MacOS portability.")>>
              ELSE <<>>
        inf == [layers |-> enabled_layers(validation),
                extensions |-> enabled_extensions(validation, port, exts),
                flags |-> creation_flags(port),
                next |-> IF validation THEN Some("debug_info") ELSE None]
        wanted == messenger_wanted(validation)
        ic == instance_calls(wanted)
    IN
    IF ~instance_ok THEN failed("InstanceCreationError", c2 \o <<Call("create_instance")>>, lg, inf)
    ELSE IF wanted /\ ~messenger_ok
    THEN failed("MessengerCreationError", c2 \o ic, lg, inf)
    ELSE [result |-> "Ok", instance |-> Some("instance"),
          debug_messenger |-> IF wanted THEN Some("messenger") ELSE None,
          calls |-> c2 \o ic, log |-> lg, info |-> inf]

\* effect on the handles of the commands issued by a call of create_instance;
\* a command that returned an error created nothing
handles_after(p, r) ==
    LET issued == IF r.result \in {"InstanceCreationError", "MessengerCreationError"}
                  THEN SubSeq(r.calls, 1, Len(r.calls) - 1)
                  ELSE r.calls
    IN  PlatformApplyAll(p, issued)

(***************************************************************************)
(* choose_physical_device                                                  *)
(***************************************************************************)
Min(S) == CHOOSE m \in S : \A n \in S : m <= n

\* only family 0 is looked at
QueueFamilyIndices_get_first_only(families) ==
    IF families # <<>> /\ "GRAPHICS" \in families[1] THEN Some(0) ELSE None

\* QueueFamilyIndices::get: position of the first family with GRAPHICS
QueueFamilyIndices_get(families) ==
    LET hits == {i \in 1..Len(families) : "GRAPHICS" \in families[i]}
    IN  IF hits = {} THEN None ELSE Some(Min(hits) - 1)

check_physical_device(families) ==
    QueueFamilyIndices_get(families) # None

RECURSIVE choose_loop(_, _, _)
choose_loop(devs, i, acc) ==
    IF i > Len(devs)
    THEN [acc EXCEPT !.result = "NoSuitableDevice"]
    ELSE
    LET d == i - 1
        cs == acc.calls \o <<DevCall("get_physical_device_properties", d),
                             DevCall("get_physical_device_queue_family_properties", d)>>
    IN  IF ~check_physical_device(devs[i])
        THEN choose_loop(devs, i + 1,
                 [acc EXCEPT !.calls = cs,
                             !.log = Append(acc.log,
                                 DevLine("warn", "Skipping physical device: Missing required queue families.", d))])
        ELSE [result |-> "Ok", phys_device |-> Some(d), calls |-> cs,
              log |-> Append(acc.log, DevLine("info", "Selected physical device", d))]

choose_physical_device(devs, enumerate_ok) ==
    LET start == [result |-> "pending", phys_device |-> None,
                  calls |-> <<Call("enumerate_physical_devices")>>, log |-> <<>>]
    IN  IF ~enumerate_ok
        THEN [start EXCEPT !.result = "DeviceEnumerationError"]
        ELSE choose_loop(devs, 1, start)

(***************************************************************************)
(* App::create, as the steps of main                                       *)
(***************************************************************************)
\* LibloadingLoader::new and Entry::new
AppCreateEntry ==
    /\ pc = "main"
    /\ \E loader_ok, entry_ok \in BOOLEAN :
         IF loader_ok /\ entry_ok
         THEN pc' = "create_instance" /\ result' = result
         ELSE /\ pc' = "failed"
              /\ result' = IF loader_ok THEN "EntryError" ELSE "LoaderError"
    /\ UNCHANGED <<envVars, instance, debug_messenger, app, info, calls, log,
                   platform, loopVars, cbVars>>

CreateInstance ==
    /\ pc = "create_instance"
    /\ \E layers_ok, version_ok, instance_ok, messenger_ok \in BOOLEAN :
         LET r == create_instance(VALIDATION_ENABLED, target_macos, available_layers,
                                  window_exts, api_version,
                                  layers_ok, version_ok, instance_ok, messenger_ok)
         IN  /\ calls' = calls \o r.calls
             /\ log' = log \o r.log
             /\ info' = r.info
             /\ platform' = handles_after(platform, r)
             /\ instance' = r.instance
             /\ debug_messenger' = r.debug_messenger
             /\ IF r.result = "Ok"
                THEN pc' = "choose_physical_device" /\ result' = result
                ELSE pc' = "failed" /\ result' = r.result
    /\ UNCHANGED <<envVars, app, loopVars, cbVars>>

ChoosePhysicalDevice ==
    /\ pc = "choose_physical_device"
    /\ \E enumerate_ok \in BOOLEAN :
         LET r == choose_physical_device(devices, enumerate_ok)
         IN  /\ calls' = calls \o r.calls
             /\ log' = log \o r.log
             /\ IF r.result = "Ok"
                THEN /\ pc' = "event_loop"
                     /\ result' = "Ok"
                     /\ app' = Some([instance |-> instance[1],
                                      debug_messenger |-> debug_messenger,
                                      phys_device |-> r.phys_device[1]])
                ELSE /\ pc' = "failed"
                     /\ result' = r.result
                     /\ app' = None
    /\ UNCHANGED <<envVars, instance, debug_messenger, info, platform, loopVars, cbVars>>

NextCreate == AppCreateEntry \/ CreateInstance \/ ChoosePhysicalDevice

(***************************************************************************)
(* App::render, App::destroy and the closure of event_loop.run             *)
(***************************************************************************)
\* the instance goes first
App_destroy_instance_first(a) ==
    IF a.debug_messenger # None
    THEN <<Call("destroy_instance"), Call("destroy_debug_utils_messenger_ext")>>
    ELSE <<Call("destroy_instance")>>

\* the Vulkan commands of App::destroy, in the order issued
App_destroy(a) ==
    IF a.debug_messenger # None
    THEN <<Call("destroy_debug_utils_messenger_ext"), Call("destroy_instance")>>
    ELSE <<Call("destroy_instance")>>

\* App::render returns Ok(()) and touches nothing
App_render(a) == a

\* the arm without its guard
redraw_unguarded(is_exiting) == TRUE

\* guard of the RedrawRequested arm
redraw_handled(is_exiting) == ~is_exiting

Deliverable == pc = "event_loop" /\ Len(events) < MaxEvents

AboutToWait ==
    /\ Deliverable
    /\ events' = Append(events, "AboutToWait")
    /\ redraw_requested' = TRUE
    /\ UNCHANGED <<envVars, createVars, exiting, renders, destroys, cbVars>>

RedrawRequested ==
    /\ Deliverable
    /\ events' = Append(events, "RedrawRequested")
    /\ redraw_requested' = FALSE
    /\ IF redraw_handled(exiting)
       THEN renders' = renders + 1 /\ app' = Some(App_render(app[1]))
       ELSE renders' = renders /\ app' = app
    /\ UNCHANGED <<envVars, pc, result, instance, debug_messenger, info, calls, log,
                   platform, exiting, destroys, cbVars>>

\* a second destroy hands destroyed handles to the driver: the process
\* either survives the call or dies in it
CloseRequested ==
    /\ Deliverable
    /\ events' = Append(events, "CloseRequested")
    /\ exiting' = TRUE
    /\ destroys' = destroys + 1
    /\ calls' = calls \o App_destroy(app[1])
    /\ platform' = PlatformApplyAll(platform, App_destroy(app[1]))
    /\ IF platform.instance = "live"
       THEN pc' = pc
       ELSE pc' \in {"event_loop", "crashed"}
    /\ UNCHANGED <<envVars, result, instance, debug_messenger, app, info, log,
                   redraw_requested, renders, cbVars>>

\* every other event falls through to `_ => {}`
OtherEvent ==
    /\ Deliverable
    /\ events' = Append(events, "Other")
    /\ UNCHANGED <<envVars, createVars, exiting, redraw_requested, renders, destroys, cbVars>>

\* event_loop.run returns once exit was requested
LoopExit ==
    /\ pc = "event_loop"
    /\ exiting
    /\ pc' = "done"
    /\ UNCHANGED <<envVars, result, instance, debug_messenger, app, info, calls, log,
                   platform, loopVars, cbVars>>

NextLoop == AboutToWait \/ RedrawRequested \/ CloseRequested \/ OtherEvent \/ LoopExit

(***************************************************************************)
(* debug_callback                                                          *)
(***************************************************************************)
SEVERITY_VERBOSE == 1
SEVERITY_INFO == 16
SEVERITY_WARNING == 256
SEVERITY_ERROR == 4096
VK_FALSE == 0

\* the thresholds tested from the lowest up
debug_callback_ascending(severity, type_, message) ==
    [level |-> IF severity >= SEVERITY_INFO THEN "debug"
               ELSE IF severity >= SEVERITY_WARNING THEN "warn"
               ELSE IF severity >= SEVERITY_ERROR THEN "error"
               ELSE "trace",
     text |-> <<type_, message>>,
     ret |-> VK_FALSE]

\* the flag types derive Ord on their bits
debug_callback(severity, type_, message) ==
    [level |-> IF severity >= SEVERITY_ERROR THEN "error"
               ELSE IF severity >= SEVERITY_WARNING THEN "warn"
               ELSE IF severity >= SEVERITY_INFO THEN "debug"
               ELSE "trace",
     text |-> <<type_, message>>,
     ret |-> VK_FALSE]

SeverityBits == {SEVERITY_VERBOSE, SEVERITY_INFO, SEVERITY_WARNING, SEVERITY_ERROR}
RECURSIVE BitsOf(_)
BitsOf(S) == IF S = {} THEN 0 ELSE LET b == CHOOSE x \in S : TRUE IN b + BitsOf(S \ {b})
Severities == {BitsOf(S) : S \in SUBSET SeverityBits}
MessageTypes == (SUBSET {"GENERAL", "VALIDATION", "PERFORMANCE"}) \ {{}}
Messages == {"", "vkCreateInstance: ok", "ERROR in WARNING text"}

DebugCallback ==
    /\ cb_count < MaxCallbacks
    /\ \E severity \in Severities, type_ \in MessageTypes, message \in Messages :
         LET r == debug_callback(severity, type_, message)
         IN  /\ cb_severity' = severity
             /\ cb_type' = type_
             /\ cb_message' = message
             /\ cb_level' = r.level
             /\ cb_text' = r.text
             /\ cb_ret' = r.ret
    /\ cb_count' = cb_count + 1
    /\ UNCHANGED <<envVars, createVars, loopVars>>

NextRouter == DebugCallback

(***************************************************************************)
(* Initial states and specifications                                       *)
(***************************************************************************)
RECURSIVE SeqsUpTo(_, _)
SeqsUpTo(S, n) ==
    IF n = 0 THEN {<<>>}
    ELSE LET shorter == SeqsUpTo(S, n - 1)
         IN  shorter \cup {Append(s, x) : s \in shorter, x \in S}

QueueFlagSets == {{"COMPUTE"}, {"GRAPHICS", "COMPUTE"}}
DeviceKinds == SeqsUpTo(QueueFlagSets, MaxFamilies)
DeviceLists == SeqsUpTo(DeviceKinds, MaxDevices)

LayerSets == SUBSET {VALIDATION_LAYER, "VK_LAYER_LUNARG_api_dump"}
WindowExtNames == {"VK_KHR_surface", "VK_KHR_xcb_surface"}
WindowExtLists == SeqsUpTo(WindowExtNames, MaxWindowExts)
Versions == {<<1, 3, 216>>, <<1, 3, 215>>, <<1, 3, 217>>, <<1, 2, 300>>,
             <<1, 4, 0>>, <<0, 9, 999>>, <<2, 0, 0>>}

Gfx == <<{"GRAPHICS", "COMPUTE"}>>
NoGfx == <<{"COMPUTE"}>>

InitProgram ==
    /\ pc = "main"
    /\ result = "pending"
    /\ instance = None
    /\ debug_messenger = None
    /\ app = None
    /\ info = NoInfo
    /\ calls = <<>>
    /\ log = <<>>
    /\ platform = NoHandles
    /\ events = <<>>
    /\ exiting = FALSE
    /\ redraw_requested = FALSE
    /\ renders = 0
    /\ destroys = 0
    /\ cb_severity = 0
    /\ cb_type = {}
    /\ cb_message = ""
    /\ cb_level = "none"
    /\ cb_text = <<>>
    /\ cb_ret = VK_FALSE
    /\ cb_count = 0

\* the whole run of main on a few platforms
Init ==
    /\ VALIDATION_ENABLED \in BOOLEAN
    /\ target_macos \in BOOLEAN
    /\ available_layers \in LayerSets
    /\ window_exts = <<"VK_KHR_surface">>
    /\ api_version \in {<<1, 3, 216>>, <<1, 2, 300>>}
    /\ devices \in {<<>>, <<NoGfx>>, <<Gfx>>, <<NoGfx, Gfx>>}
    /\ InitProgram

Next == NextCreate \/ NextLoop

Spec == Init /\ [][Next]_vars

\* App::create over every enumeration of devices
InitSelect ==
    /\ VALIDATION_ENABLED \in BOOLEAN
    /\ target_macos = FALSE
    /\ available_layers = {VALIDATION_LAYER}
    /\ window_exts = <<"VK_KHR_surface">>
    /\ api_version = <<1, 3, 216>>
    /\ devices \in DeviceLists
    /\ InitProgram

SpecSelect == InitSelect /\ [][NextCreate]_vars

\* App::create over every input of the composition
InitCompose ==
    /\ VALIDATION_ENABLED \in BOOLEAN
    /\ target_macos \in BOOLEAN
    /\ available_layers \in LayerSets
    /\ window_exts \in WindowExtLists
    /\ api_version \in Versions
    /\ devices = <<Gfx>>
    /\ InitProgram

SpecCompose == InitCompose /\ [][NextCreate]_vars

\* the driver calling debug_callback
InitRouter ==
    /\ VALIDATION_ENABLED = TRUE
    /\ target_macos = FALSE
    /\ available_layers = {VALIDATION_LAYER}
    /\ window_exts = <<"VK_KHR_surface">>
    /\ api_version = <<1, 3, 216>>
    /\ devices = <<Gfx>>
    /\ InitProgram

SpecRouter == InitRouter /\ [][NextRouter]_vars

(***************************************************************************)
(* Properties                                                              *)
(***************************************************************************)
Ops == {calls[j].op : j \in DOMAIN calls}
Suitable(dev) == \E f \in DOMAIN dev : "GRAPHICS" \in dev[f]
SuitableSet == {i \in DOMAIN devices : Suitable(devices[i])}
Warned(d) == \E j \in DOMAIN log : log[j].level = "warn" /\ log[j].dev = Some(d)
Selected(d) == \E j \in DOMAIN log : log[j].level = "info" /\ log[j].dev = Some(d)
NoErrorLine == \A j \in DOMAIN log : log[j].level # "error"
\* choose_physical_device enumerated the devices and returned
Chosen == result \in {"Ok", "NoSuitableDevice"}

\* C1 (as stated): the lowest-indexed suitable device is accepted and every
\* one of the other N-K devices is rejected with a warning line; with K = 0
\* create fails with the no-suitable-device error.
C1_AllOthersWarned ==
    Chosen =>
        IF SuitableSet = {}
        THEN result = "NoSuitableDevice" /\ pc = "failed" /\ app = None
        ELSE /\ result = "Ok"
             /\ app[1].phys_device = Min(SuitableSet) - 1
             /\ NoErrorLine
             /\ \A i \in DOMAIN devices : i \notin SuitableSet => Warned(i - 1)

\* C1 (amended): the lowest-indexed suitable device is accepted; exactly the
\* devices enumerated before it (all unsuitable) are rejected with a warning
\* line and no error line, the devices after it are not examined; with K = 0
\* every device is warned about and create fails with the
\* no-suitable-device error.
C1_FirstMatch ==
    Chosen =>
        IF SuitableSet = {}
        THEN /\ result = "NoSuitableDevice" /\ pc = "failed" /\ app = None
             /\ NoErrorLine
             /\ \A i \in DOMAIN devices : Warned(i - 1)
        ELSE /\ result = "Ok"
             /\ app[1].phys_device = Min(SuitableSet) - 1
             /\ Selected(Min(SuitableSet) - 1)
             /\ NoErrorLine
             /\ \A i \in DOMAIN devices :
                    /\ Warned(i - 1) <=> i < Min(SuitableSet)
                    /\ (DevCall("get_physical_device_queue_family_properties", i - 1)
                            \in {calls[j] : j \in DOMAIN calls}) <=> i <= Min(SuitableSet)

C1_Witness ==
    /\ devices = <<NoGfx, <<{"COMPUTE"}, {"GRAPHICS", "COMPUTE"}>>, Gfx>>
    /\ pc = "event_loop"
    /\ app[1].phys_device = 1
    /\ Warned(0)

\* C2: destroy on a created App with a messenger releases the messenger
\* immediately before the instance, and the instance is never destroyed
\* under a live messenger.
C2_MessengerBeforeInstance ==
    /\ platform.messenger # "dangling"
    /\ (destroys = 1 /\ VALIDATION_ENABLED) =>
          /\ Len(calls) >= 2
          /\ calls[Len(calls) - 1].op = "destroy_debug_utils_messenger_ext"
          /\ calls[Len(calls)].op = "destroy_instance"
          /\ platform = [instance |-> "destroyed", messenger |-> "destroyed"]

C2_Witness ==
    /\ destroys = 1
    /\ VALIDATION_ENABLED
    /\ app[1].debug_messenger = Some("messenger")
    /\ platform.instance = "destroyed"

\* C3: when create fails, no instance and no messenger created during the
\* attempt is still live.
C3_NoHandleLeak ==
    pc = "failed" => platform.instance # "live" /\ platform.messenger # "live"

\* C4: with validation enabled and a set of available layers that lacks the
\* validation layer, create fails with the missing-capability error and
\* entry.create_instance is never called.
C4_MissingLayerFails ==
    (/\ VALIDATION_ENABLED
     /\ VALIDATION_LAYER \notin available_layers
     /\ pc \notin {"main", "create_instance"}
     /\ result \notin {"LoaderError", "EntryError", "LayerEnumerationError"})
    => /\ result = "MissingCapability"
       /\ pc = "failed"
       /\ "create_instance" \notin Ops
       /\ platform = NoHandles
       /\ app = None

C4_Witness ==
    /\ result = "MissingCapability"
    /\ available_layers = {"VK_LAYER_LUNARG_api_dump"}
    /\ VALIDATION_ENABLED

ClaimedLevel(severity) ==
    IF severity >= SEVERITY_ERROR THEN "error"
    ELSE IF severity >= SEVERITY_WARNING THEN "warn"
    ELSE IF severity >= SEVERITY_INFO THEN "info"
    ELSE "trace"

EmittedLevel(severity) ==
    IF severity >= SEVERITY_ERROR THEN "error"
    ELSE IF severity >= SEVERITY_WARNING THEN "warn"
    ELSE IF severity >= SEVERITY_INFO THEN "debug"
    ELSE "trace"

Packed(v) == v[1] * 4194304 + v[2] * 4096 + v[3]
RefPortability == target_macos /\ Packed(api_version) >= Packed(<<1, 3, 216>>)
RefExtensions ==
    window_exts
    \o (IF RefPortability
        THEN <<"VK_KHR_get_physical_device_properties2", "VK_KHR_portability_enumeration">>
        ELSE <<>>)
    \o (IF VALIDATION_ENABLED THEN <<"VK_EXT_debug_utils">> ELSE <<>>)

\* C6: the creation parameters handed to entry.create_instance are the
\* reference composition: the validation layer iff validation is enabled;
\* the windowing extensions in order, then the two portability extensions
\* iff macOS and version >= 1.3.216, then debug utils iff validation is
\* enabled; the portability flag iff the portability extensions were added.
C6_Composition ==
    "create_instance" \in Ops =>
        /\ info.layers = (IF VALIDATION_ENABLED THEN <<"VK_LAYER_KHRONOS_validation">> ELSE <<>>)
        /\ info.extensions = RefExtensions
        /\ info.flags = (IF RefPortability THEN {"ENUMERATE_PORTABILITY_KHR"} ELSE {})
        /\ info.next = (IF VALIDATION_ENABLED THEN Some("debug_info") ELSE None)

C6_Witness ==
    /\ "create_instance" \in Ops
    /\ VALIDATION_ENABLED /\ ~target_macos
    /\ available_layers = {VALIDATION_LAYER}
    /\ window_exts = <<"VK_KHR_surface">>
    /\ info.extensions = <<"VK_KHR_surface", "VK_EXT_debug_utils">>
    /\ info.layers = <<"VK_LAYER_KHRONOS_validation">>

\* C7: whatever events the loop delivers, App::destroy is invoked at most
\* once.
C7_DestroyAtMostOnce == destroys <= 1

\* C8: a created App holds a messenger iff validation is enabled, and the
\* messenger was registered right after entry.create_instance succeeded,
\* against the live instance.
C8_MessengerIffValidation ==
    app # None =>
        /\ app[1].debug_messenger # None <=> VALIDATION_ENABLED
        /\ "create_debug_utils_messenger_ext" \in Ops <=> VALIDATION_ENABLED
        /\ VALIDATION_ENABLED =>
              \E j \in DOMAIN calls :
                  /\ calls[j].op = "create_instance"
                  /\ j < Len(calls)
                  /\ calls[j + 1].op = "create_debug_utils_messenger_ext"
        /\ destroys = 0 =>
              /\ platform.instance = "live"
              /\ platform.messenger = (IF VALIDATION_ENABLED THEN "live" ELSE "none")

C8_Witness ==
    /\ pc = "event_loop"
    /\ destroys = 0
    /\ VALIDATION_ENABLED
    /\ app[1].debug_messenger = Some("messenger")
    /\ platform.messenger = "live"

\* create_instance got as far as the probe of the layers
Probed ==
    /\ pc \notin {"main", "create_instance"}
    /\ result \notin {"LoaderError", "EntryError", "LayerEnumerationError"}

\* C9 (as stated): with no layer available and validation enabled, create
\* fails with the missing-capability error before any platform call.
C9_NoPlatformCall ==
    (VALIDATION_ENABLED /\ available_layers = {} /\ Probed)
    => result = "MissingCapability" /\ calls = <<>>

\* C9 (amended): with no layer available and validation enabled, create
\* fails with the missing-capability error after the layer enumeration and
\* before any other platform call.
C9_OnlyLayerEnumeration ==
    (VALIDATION_ENABLED /\ available_layers = {} /\ Probed)
    => /\ result = "MissingCapability"
       /\ calls = <<Call("enumerate_instance_layer_properties")>>
       /\ platform = NoHandles
       /\ info = NoInfo

C9_Witness ==
    /\ VALIDATION_ENABLED
    /\ available_layers = {}
    /\ pc = "failed"
    /\ result = "MissingCapability"
    /\ Len(calls) = 1

\* RedrawRequested events delivered before the first CloseRequested
RECURSIVE RedrawsBeforeClose(_)
RedrawsBeforeClose(evs) ==
    IF evs = <<>> \/ Head(evs) = "CloseRequested" THEN 0
    ELSE (IF Head(evs) = "RedrawRequested" THEN 1 ELSE 0) + RedrawsBeforeClose(Tail(evs))

\* C10: render is invoked for every RedrawRequested delivered before the
\* first CloseRequested and for none after it, and an invocation leaves the
\* App, the handles and the issued commands as they were.
C10_NoRenderAfterClose ==
    /\ [](renders = RedrawsBeforeClose(events))
    /\ [][renders' # renders =>
             /\ ~exiting /\ destroys = 0
             /\ app' = app /\ platform' = platform /\ calls' = calls]_vars

C10_Witness ==
    /\ events = <<"RedrawRequested", "CloseRequested", "RedrawRequested">>
    /\ renders = 1
    /\ exiting

====
